---- MODULE Spec2Model ----
(***************************************************************************)
(* Object lease lifecycle of szem-core: the SQLite metadata store, the     *)
(* lease status rule, the HTTP upload and read handlers, the in-memory     *)
(* storage adapter and the expiration scheduler.                           *)
(*                                                                         *)
(* Time is counted in ticks of 100 ms; instant 0 is Go's zero time.Time.   *)
(* Timestamps are kept in the tables as the TEXT that iso() writes and are *)
(* read back with parseTime().                                             *)
(***************************************************************************)
EXTENDS Integers, Sequences, FiniteSets, TLC

\* ------------------------------------------------------------- bounds
\* upload requests the model serves
MaxUploads == 2
\* clock advances the model takes
MaxTicks == 2
\* instants after the probe base the status probe ranges over
MaxProbe == 2
\* direct MarkDeleted calls per lease identifier
MaxCalls == 2
\* Upload calls made on the MockAdapter directly
MaxPieces == 3

\* ---------------------------------------------------------- time units
\* time.Second, in ticks
Second == 10
\* 24 * time.Hour
Day == 24 * 3600 * Second
\* 30 * 24 * time.Hour (handleUpload)
LeaseDuration == 30 * Day
\* the wall clock when the process starts
StartClock == 20 * Day
\* how far the wall clock moves in one advance
Jumps == {1, LeaseDuration}

\* ------------------------------------------------------------- inputs
\* X-Wallet header values; "" is a missing header
Wallets == {"", "w1", "w2"}
\* request bodies
Payloads == {<<1>>, <<2>>}

\* ------------------------------------------------ timestamps as TEXT
\* time.Time.Format(time.RFC3339): the fraction is dropped
isoSeconds(t) == [sec |-> t \div Second, frac |-> 0]

\* time.Time.Format(time.RFC3339Nano) of t.UTC(): whole seconds at a fixed
\* width, then the fraction with its trailing zeros removed (none when 0).
iso(t) == [sec |-> t \div Second, frac |-> t % Second]

\* time.Parse(time.RFC3339Nano, s)
parseTime(s) == s.sec * Second + s.frac

\* Rank of the text after the seconds field in byte order: ".1Z" < ... <
\* ".9Z" < "Z", since '.' sorts before 'Z'.
FracRank(f) == IF f = 0 THEN Second ELSE f

\* SQLite's comparison of two TEXT timestamps (memcmp of the strings)
TextLess(a, b) ==
    \/ a.sec < b.sec
    \/ a.sec = b.sec /\ FracRank(a.frac) < FracRank(b.frac)

\* sql.NullString
NullText == [Valid |-> FALSE, String |-> iso(0)]
SomeText(s) == [Valid |-> TRUE, String |-> s]

\* *time.Time
NilTime == [set |-> FALSE, t |-> 0]
SomeTime(t) == [set |-> TRUE, t |-> t]

\* ------------------------------------------------------- lease status
LeaseActive == "active"
LeaseExpired == "expired"
LeaseDeleted == "deleted"

\* CalculateLeaseStatus with the expiry test written as now.After only
CalculateLeaseStatusStrict(l, now) ==
    IF l.DeletedAt.set THEN LeaseDeleted
    ELSE IF l.ExpireAt # 0 /\ now > l.ExpireAt THEN LeaseExpired
    ELSE LeaseActive

\* CalculateLeaseStatus with the expiry test ahead of the deletion test
CalculateLeaseStatusExpiryFirst(l, now) ==
    IF l.ExpireAt # 0 /\ (now = l.ExpireAt \/ now > l.ExpireAt) THEN LeaseExpired
    ELSE IF l.DeletedAt.set THEN LeaseDeleted
    ELSE LeaseActive

\* CalculateLeaseStatus with the expiry test written as now.Equal only
CalculateLeaseStatusEqualOnly(l, now) ==
    IF l.DeletedAt.set THEN LeaseDeleted
    ELSE IF l.ExpireAt # 0 /\ now = l.ExpireAt THEN LeaseExpired
    ELSE LeaseActive

\* CalculateLeaseStatus treating a tombstoned lease as deleted
CalculateLeaseStatusTombstone(l, now) ==
    IF l.DeletedAt.set \/ l.TombstonedAt.set THEN LeaseDeleted
    ELSE IF l.ExpireAt # 0 /\ (now = l.ExpireAt \/ now > l.ExpireAt) THEN LeaseExpired
    ELSE LeaseActive

\* CalculateLeaseStatus without the !l.ExpireAt.IsZero() test
CalculateLeaseStatusZeroExpires(l, now) ==
    IF l.DeletedAt.set THEN LeaseDeleted
    ELSE IF now = l.ExpireAt \/ now > l.ExpireAt THEN LeaseExpired
    ELSE LeaseActive

\* CalculateLeaseStatus(l), with now the value time.Now().UTC() returns
CalculateLeaseStatus(l, now) ==
    IF l.DeletedAt.set THEN LeaseDeleted
    ELSE IF l.ExpireAt # 0 /\ (now = l.ExpireAt \/ now > l.ExpireAt) THEN LeaseExpired
    ELSE LeaseActive

\* ObjectLease literal
ObjectLease(leaseID, objectID, wallet, createdAt, expireAt, deletedAt, ref) ==
    [LeaseID |-> leaseID, ObjectID |-> objectID, Bucket |-> "", Key |-> "",
     Wallet |-> wallet, CreatedAt |-> createdAt, ExpireAt |-> expireAt,
     TombstonedAt |-> NilTime, DeletedAt |-> deletedAt, StorageRef |-> ref]

StorageRef(dataSetID, pieceCID) == [DataSetID |-> dataSetID, PieceCID |-> pieceCID]

\* ---------------------------------------------------------------- state
VARIABLES
    clock,      \* time.Now(), in ticks
    ticks,      \* clock advances taken so far
    users,      \* table users
    datasets,   \* table datasets
    objects,    \* table objects
    leases,     \* table leases
    pieces,     \* MockAdapter.data: piece number -> bytes
    up,         \* the upload requests: locals and position of each handler
    rd,         \* the read request: locals and position of its handler
    sched,      \* the scheduler goroutine: position, the leases it ranges over,
                \* the lease rows that were due when it queried, and whether
                \* its last query returned an error
    probe,      \* a lease, an instant and the status derived for them
    calls,      \* per lease id, the MarkDeleted calls made on the store directly
    qry,        \* the last list or statistics result returned to a caller
    mock        \* a direct caller of the MockAdapter: the Upload results it
                \* was given and the result of its last call

storeVars == <<users, datasets, objects, leases>>
vars == <<clock, ticks, users, datasets, objects, leases, pieces, up, rd,
          sched, probe, calls, qry, mock>>

\* ------------------------------------------------------ SQLiteStore
\* INSERT OR REPLACE INTO users(wallet, created_at): the wallet's row is
\* deleted and written anew
InsertUserReplace(tbl, wallet, now) ==
    {u \in tbl : u.wallet # wallet} \cup {[wallet |-> wallet, created_at |-> iso(now)]}

\* INSERT OR IGNORE INTO users(wallet, created_at)
InsertUser(tbl, wallet, now) ==
    IF \E u \in tbl : u.wallet = wallet THEN tbl
    ELSE tbl \cup {[wallet |-> wallet, created_at |-> iso(now)]}

\* INSERT OR IGNORE INTO datasets(dataset_id, wallet, created_at)
InsertDataSet(tbl, datasetID, wallet, now) ==
    IF \E d \in tbl : d.dataset_id = datasetID THEN tbl
    ELSE tbl \cup {[dataset_id |-> datasetID, wallet |-> wallet,
                    created_at |-> iso(now)]}

\* INSERT INTO objects(...): object_id is the primary key and the error of a
\* rejected insert is dropped
InsertObject(tbl, objectID, wallet, datasetID, size, now) ==
    IF \E o \in tbl : o.object_id = objectID THEN tbl
    ELSE tbl \cup {[object_id |-> objectID, wallet |-> wallet,
                    dataset_id |-> datasetID, size_bytes |-> size,
                    created_at |-> iso(now)]}

\* INSERT INTO leases(...): lease_id is the primary key, deleted_at is bound
\* to nil, and the error of a rejected insert is dropped
InsertLease(tbl, l) ==
    IF \E x \in tbl : x.lease_id = l.LeaseID THEN tbl
    ELSE tbl \cup {[lease_id |-> l.LeaseID, object_id |-> l.ObjectID,
                    bucket |-> l.Bucket, object_key |-> l.Key,
                    wallet |-> l.Wallet, created_at |-> iso(l.CreatedAt),
                    expire_at |-> iso(l.ExpireAt), deleted_at |-> NullText,
                    dataset_id |-> l.StorageRef.DataSetID,
                    piece_cid |-> l.StorageRef.PieceCID]}

\* The scan of one leases row into an ObjectLease (bucket and object_key are
\* not selected)
ScanLease(row) ==
    ObjectLease(row.lease_id, row.object_id, row.wallet,
                parseTime(row.created_at), parseTime(row.expire_at),
                IF row.deleted_at.Valid THEN SomeTime(parseTime(row.deleted_at.String))
                ELSE NilTime,
                StorageRef(row.dataset_id, row.piece_cid))

\* GetActiveLeaseByObjectID: WHERE object_id = ? ORDER BY created_at DESC
\* LIMIT 1. The leases the query may return; none is sql.ErrNoRows. Rows
\* whose created_at texts are equal tie, and SQLite may return either.
GetActiveLeaseByObjectID(tbl, objectID) ==
    LET rows == {x \in tbl : x.object_id = objectID}
    IN  {ScanLease(x) : x \in {y \in rows :
            \A z \in rows : ~ TextLess(y.created_at, z.created_at)}}

\* GetExpiredLeases: the leases WHERE deleted_at IS NULL AND expire_at <= now
GetExpiredLeases(tbl, now) ==
    {ScanLease(x) : x \in {y \in tbl :
        ~ y.deleted_at.Valid /\ parseTime(y.expire_at) <= now}}

\* MarkDeleted without the deleted_at IS NULL test: a later call overwrites
MarkDeletedOverwrite(tbl, leaseID, now) ==
    {IF x.lease_id = leaseID
     THEN [x EXCEPT !.deleted_at = SomeText(iso(now))]
     ELSE x : x \in tbl}

\* MarkDeleted: UPDATE leases SET deleted_at = now WHERE lease_id = ? AND
\* deleted_at IS NULL
MarkDeleted(tbl, leaseID, now) ==
    {IF x.lease_id = leaseID /\ ~ x.deleted_at.Valid
     THEN [x EXCEPT !.deleted_at = SomeText(iso(now))]
     ELSE x : x \in tbl}

\* ------------------------------------------------------ MockAdapter
\* EnsureDataSet
EnsureDataSet == "mock-ds-1"

\* Upload numbering the piece by len(data) of the body
UploadPieceCIDByLen(data, bytes) == Len(bytes)

\* Upload: the n of "mock-piece-n", n = len(m.data) + 1
UploadPieceCID(data, bytes) == Cardinality(DOMAIN data) + 1

\* Upload, under m.mu: m.data[pieceCID] = data
AdapterUpload(data, bytes) ==
    LET cid == UploadPieceCID(data, bytes)
    IN  [k \in DOMAIN data \cup {cid} |-> IF k = cid THEN bytes ELSE data[k]]

\* Download: ok is false for "not found"
AdapterDownload(data, cid) ==
    IF cid \in DOMAIN data THEN [ok |-> TRUE, bytes |-> data[cid]]
    ELSE [ok |-> FALSE, bytes |-> <<>>]

\* Delete
AdapterDelete(data, cid) == [k \in DOMAIN data \ {cid} |-> data[k]]

\* ------------------------------- the MockAdapter called on its own
\* the n of the piece identifiers "mock-piece-n" a caller may name
PieceIDs == 1 .. MaxPieces

\* no call returned yet
NoCall == [op |-> "", cid |-> 0, ok |-> FALSE, bytes |-> <<>>]

\* a caller that holds no piece yet
NoMock == [log |-> <<>>, last |-> NoCall]

\* the Upload results of the caller with the ones for cid no longer held
Forget(log, cid) ==
    [i \in DOMAIN log |-> IF log[i].cid = cid THEN [log[i] EXCEPT !.live = FALSE]
                          ELSE log[i]]

\* m.Upload(ctx, dataSetID, data, opts), one step under m.mu; the caller keeps
\* the UploadResult
MockUpload(bytes) ==
    /\ Len(mock.log) < MaxPieces
    /\ pieces' = AdapterUpload(pieces, bytes)
    /\ mock' = [log |-> Append(mock.log, [cid |-> UploadPieceCID(pieces, bytes),
                                          bytes |-> bytes, live |-> TRUE]),
                last |-> [op |-> "Upload", cid |-> UploadPieceCID(pieces, bytes),
                          ok |-> TRUE, bytes |-> bytes]]
    /\ UNCHANGED <<clock, ticks, storeVars, up, rd, sched, probe, calls, qry>>

\* m.Download(ctx, pieceCID), one step under m.mu
MockDownload(cid) ==
    /\ mock' = [mock EXCEPT !.last = [op |-> "Download", cid |-> cid,
                                      ok |-> AdapterDownload(pieces, cid).ok,
                                      bytes |-> AdapterDownload(pieces, cid).bytes]]
    /\ UNCHANGED <<clock, ticks, storeVars, pieces, up, rd, sched, probe, calls, qry>>

\* m.Delete(ctx, pieceCID), one step under m.mu; it returns nil whether or
\* not the key was there
MockDelete(cid) ==
    /\ pieces' = AdapterDelete(pieces, cid)
    /\ mock' = [log |-> Forget(mock.log, cid),
                last |-> [op |-> "Delete", cid |-> cid, ok |-> TRUE, bytes |-> <<>>]]
    /\ UNCHANGED <<clock, ticks, storeVars, up, rd, sched, probe, calls, qry>>

\* ------------------------------------------------------------ responses
\* writeError(w, code, errCode, message)
writeError(code, errCode, message) ==
    [code |-> code, error |-> errCode, message |-> message, body |-> <<>>]

\* w.Write(data) with the default status
writeBody(data) == [code |-> 200, error |-> "", message |-> "", body |-> data]

\* no response written yet
NoResponse == [code |-> 0, error |-> "", message |-> "", body |-> <<>>]

\* handleUpload's writeJSON and writeError, as one record shape
UploadOK(objectID, pieceCID, size, expire) ==
    [code |-> 200, error |-> "", object_id |-> objectID, piece_cid |-> pieceCID,
     size |-> size, expire_at |-> expire]

UploadError(code, errCode) ==
    [code |-> code, error |-> errCode, object_id |-> 0, piece_cid |-> 0,
     size |-> 0, expire_at |-> 0]

\* ExtendedStats{}; DashboardStats has the first five fields only
ZeroStats ==
    [TotalUsers |-> 0, NewUsersToday |-> 0, TotalStorageBytes |-> 0,
     StorageTodayBytes |-> 0, ExpiringIn7Days |-> 0,
     ActiveObjects |-> 0, ExpiredObjects |-> 0, DeletedObjects |-> 0]

\* no list or statistics result yet
NoQuery ==
    [kind |-> "none", at |-> 0, code |-> 0, list |-> <<>>, stats |-> ZeroStats]

\* ---------------------------------------------------------- handleUpload
Uploads == 1 .. MaxUploads

IdleUpload ==
    [pc |-> "idle", wallet |-> "", data |-> <<>>, dataSetID |-> "",
     pieceCID |-> 0, size |-> 0, objectID |-> 0, now |-> 0, expire |-> 0,
     resp |-> UploadError(0, "")]

\* uuid.New().String(): an identifier no other call returns. The two calls of
\* request r return 2r - 1 (its object) and 2r (its lease); 0 is never returned.
NewObjectID(r) == 2 * r - 1
NewLeaseID(r) == 2 * r

\* expire := now.Add(30 * 24 * time.Hour)
LeaseExpiry(now) == now + LeaseDuration

\* The request arrives (requests are numbered in order of arrival); the header and the body are checked, then
\* adapter.EnsureDataSet and adapter.Upload run. tooLarge: the body exceeds
\* maxUploadSize and io.ReadAll fails.
UploadStart(r, wallet, data, tooLarge) ==
    /\ up[r].pc = "idle"
    /\ \A q \in Uploads : q < r => up[q].pc # "idle"
    /\ IF wallet = ""
       THEN /\ up' = [up EXCEPT ![r] = [@ EXCEPT !.pc = "done", !.wallet = wallet,
                          !.resp = UploadError(400, "missing_wallet")]]
            /\ UNCHANGED pieces
       ELSE IF tooLarge
       THEN /\ up' = [up EXCEPT ![r] = [@ EXCEPT !.pc = "done", !.wallet = wallet,
                          !.resp = UploadError(413, "payload_too_large")]]
            /\ UNCHANGED pieces
       ELSE /\ pieces' = AdapterUpload(pieces, data)
            /\ up' = [up EXCEPT ![r] = [@ EXCEPT !.pc = "store",
                          !.wallet = wallet, !.data = data,
                          !.dataSetID = EnsureDataSet,
                          !.pieceCID = UploadPieceCID(pieces, data),
                          !.size = Len(data)]]
    /\ UNCHANGED <<clock, ticks, storeVars, rd, sched, probe, calls, qry, mock>>

\* objectID := uuid.New().String(); s.store.InsertUser(wallet);
\* s.store.InsertDataSet(string(dataSetID), wallet);
\* s.store.InsertObject(objectID, wallet, string(dataSetID), int64(len(data)))
UploadInsertRecords(r) ==
    /\ up[r].pc = "store"
    /\ users' = InsertUser(users, up[r].wallet, clock)
    /\ datasets' = InsertDataSet(datasets, up[r].dataSetID, up[r].wallet, clock)
    /\ objects' = InsertObject(objects, NewObjectID(r), up[r].wallet,
                               up[r].dataSetID, Len(up[r].data), clock)
    /\ up' = [up EXCEPT ![r] = [@ EXCEPT !.pc = "lease",
                                         !.objectID = NewObjectID(r)]]
    /\ UNCHANGED <<clock, ticks, leases, pieces, rd, sched, probe, calls, qry, mock>>

\* an upload that also renews the wallet's earlier leases to the new expiry
StoreUploadLeaseRenewing(tbl, l) ==
    InsertLease({IF x.wallet = l.Wallet
                 THEN [x EXCEPT !.expire_at = iso(l.ExpireAt)] ELSE x : x \in tbl}, l)

\* what handleUpload does to the leases table: s.store.InsertLease(lease)
StoreUploadLease(tbl, l) == InsertLease(tbl, l)

\* now := time.Now().UTC(); expire := now.Add(30 * 24 * time.Hour); the lease
\* literal (LeaseID: uuid.New().String()); s.store.InsertLease(lease); the
\* response
UploadInsertLease(r) ==
    /\ up[r].pc = "lease"
    /\ leases' = StoreUploadLease(leases,
                    ObjectLease(NewLeaseID(r), up[r].objectID, up[r].wallet,
                                clock, LeaseExpiry(clock), NilTime,
                                StorageRef(up[r].dataSetID, up[r].pieceCID)))
    /\ up' = [up EXCEPT ![r] = [@ EXCEPT !.pc = "done", !.now = clock,
                  !.expire = LeaseExpiry(clock),
                  !.resp = UploadOK(up[r].objectID, up[r].pieceCID, up[r].size,
                                    LeaseExpiry(clock))]]
    /\ UNCHANGED <<clock, ticks, users, datasets, objects, pieces, rd, sched,
                   probe, calls, qry, mock>>

\* ----------------------------------- handleUpload when the adapter fails
\* the adapter calls of handleUpload that may return an error
AdapterCalls == {"EnsureDataSet", "Upload"}

\* handleUpload (internal/api) with an adapter whose EnsureDataSet or Upload
\* returns an error: the header and body pass, the call fails, writeError
\* follows and the handler returns
UploadAdapterFails(r, wallet, data, call) ==
    /\ up[r].pc = "idle"
    /\ \A q \in Uploads : q < r => up[q].pc # "idle"
    /\ wallet # ""
    /\ up' = [up EXCEPT ![r] = [@ EXCEPT !.pc = "done", !.wallet = wallet,
                  !.data = data,
                  !.resp = IF call = "EnsureDataSet"
                           THEN UploadError(500, "dataset_error")
                           ELSE UploadError(500, "upload_error")]]
    /\ UNCHANGED <<clock, ticks, storeVars, pieces, rd, sched, probe, calls, qry, mock>>

\* ------------------------------------- handleUpload of the older server
\* (the handler whose Server has the exported fields Store and Adapter)
\* The request arrives; the header and the body are checked, then
\* Adapter.EnsureDataSet runs. readFails: io.ReadAll returns an error.
OlderUploadStart(r, wallet, data, readFails, ensureFails) ==
    /\ up[r].pc = "idle"
    /\ \A q \in Uploads : q < r => up[q].pc # "idle"
    /\ up' = [up EXCEPT ![r] =
                IF wallet = ""
                THEN [@ EXCEPT !.pc = "done", !.wallet = wallet,
                               !.resp = UploadError(400, "missing X-Wallet header")]
                ELSE IF readFails
                THEN [@ EXCEPT !.pc = "done", !.wallet = wallet,
                               !.resp = UploadError(500, "read error")]
                ELSE IF ensureFails
                THEN [@ EXCEPT !.pc = "done", !.wallet = wallet, !.data = data,
                               !.resp = UploadError(500, "dataset error")]
                ELSE [@ EXCEPT !.pc = "older-users", !.wallet = wallet,
                               !.data = data, !.dataSetID = EnsureDataSet]]
    /\ UNCHANGED <<clock, ticks, storeVars, pieces, rd, sched, probe, calls, qry, mock>>

\* s.Store.InsertUser(wallet); s.Store.InsertDataSet(string(dataSetID), wallet)
OlderUploadInsertUser(r) ==
    /\ up[r].pc = "older-users"
    /\ users' = InsertUser(users, up[r].wallet, clock)
    /\ datasets' = InsertDataSet(datasets, up[r].dataSetID, up[r].wallet, clock)
    /\ up' = [up EXCEPT ![r] = [@ EXCEPT !.pc = "older-upload"]]
    /\ UNCHANGED <<clock, ticks, objects, leases, pieces, rd, sched, probe, calls,
                   qry, mock>>

\* uploadResult, err := s.Adapter.Upload(...); on an error the handler writes
\* "upload error" and returns
OlderUploadAdapter(r, uploadFails) ==
    /\ up[r].pc = "older-upload"
    /\ IF uploadFails
       THEN /\ up' = [up EXCEPT ![r] = [@ EXCEPT !.pc = "done",
                          !.resp = UploadError(500, "upload error")]]
            /\ UNCHANGED pieces
       ELSE /\ pieces' = AdapterUpload(pieces, up[r].data)
            /\ up' = [up EXCEPT ![r] = [@ EXCEPT !.pc = "older-object",
                          !.pieceCID = UploadPieceCID(pieces, up[r].data),
                          !.size = Len(up[r].data)]]
    /\ UNCHANGED <<clock, ticks, storeVars, rd, sched, probe, calls, qry, mock>>

\* objectID := uuid.New().String(); s.Store.InsertObject(objectID, wallet,
\* string(dataSetID), int64(uploadResult.Size))
OlderUploadInsertObject(r) ==
    /\ up[r].pc = "older-object"
    /\ objects' = InsertObject(objects, NewObjectID(r), up[r].wallet,
                               up[r].dataSetID, up[r].size, clock)
    /\ up' = [up EXCEPT ![r] = [@ EXCEPT !.pc = "older-lease",
                                         !.objectID = NewObjectID(r)]]
    /\ UNCHANGED <<clock, ticks, users, datasets, leases, pieces, rd, sched,
                   probe, calls, qry, mock>>

\* the lease literal (Bucket "qave", Key the piece, CreatedAt and ExpireAt
\* from time.Now()); s.Store.InsertLease(lease); the response, which has no
\* expire_at
OlderUploadInsertLease(r) ==
    /\ up[r].pc = "older-lease"
    /\ leases' = InsertLease(leases,
                    [ObjectLease(NewLeaseID(r), up[r].objectID, up[r].wallet,
                                 clock, LeaseExpiry(clock), NilTime,
                                 StorageRef(up[r].dataSetID, up[r].pieceCID))
                        EXCEPT !.Bucket = "qave", !.Key = up[r].pieceCID])
    /\ up' = [up EXCEPT ![r] = [@ EXCEPT !.pc = "done", !.now = clock,
                  !.expire = LeaseExpiry(clock),
                  !.resp = UploadOK(up[r].objectID, up[r].pieceCID, up[r].size, 0)]]
    /\ UNCHANGED <<clock, ticks, users, datasets, objects, pieces, rd, sched,
                   probe, calls, qry, mock>>

\* ------------------------------------------------------- handleGetObject
NoLease == ObjectLease(0, 0, "", 0, 0, NilTime, StorageRef("", 0))

IdleRead ==
    [pc |-> "idle", objectID |-> 0, lease |-> NoLease, resp |-> NoResponse,
     visible |-> FALSE]

\* the response when GetActiveLeaseByObjectID returns an error
NotFoundOnLookup == writeError(404, "not_found", "object not found")

\* a mistaken response for a lease that is not active: 410, "expired"
GoneOnStatus == writeError(410, "expired", "object expired")

\* the response when the lease's status is not LeaseActive
NotFoundOnStatus == writeError(404, "not_found", "object not found")

\* the response when adapter.Download returns an error
DownloadFailed == writeError(500, "download_error", "download failed")

\* a mistaken status test that refuses only deleted leases
ServedUnlessDeleted(status) == status # LeaseDeleted

\* the status test: the object is served when status == LeaseActive
Served(status) == status = LeaseActive

\* adapter.Download(lease.StorageRef.PieceCID) and the response after it
DownloadResponse(data, lease) ==
    LET got == AdapterDownload(data, lease.StorageRef.PieceCID)
    IN  IF got.ok THEN writeBody(got.bytes) ELSE DownloadFailed

\* The responses handleGetObject may write when the whole handler runs at
\* instant now against the tables tbl and the adapter's data
handleGetObject(tbl, data, objectID, now) ==
    LET found == GetActiveLeaseByObjectID(tbl, objectID)
    IN  IF found = {} THEN {NotFoundOnLookup}
        ELSE {IF Served(CalculateLeaseStatus(l, now))
              THEN DownloadResponse(data, l)
              ELSE NotFoundOnStatus : l \in found}

\* The most recent lease row of the object is neither deleted nor past its
\* expiry at instant now (a zero expiry never passes)
VisibleAt(tbl, objectID, now) ==
    \E x \in tbl :
        /\ x.object_id = objectID
        /\ \A z \in tbl : z.object_id = objectID =>
               parseTime(z.created_at) <= parseTime(x.created_at)
        /\ ~ x.deleted_at.Valid
        /\ parseTime(x.expire_at) = 0 \/ now < parseTime(x.expire_at)

\* A read request arrives (the caller of the read-only endpoints makes one
\* request at a time, and a new request discards the previous response):
\* lease, err := s.store.GetActiveLeaseByObjectID(objectID)
ReadFetch(objectID) ==
    /\ rd.pc \in {"idle", "done"}
    /\ LET found == GetActiveLeaseByObjectID(leases, objectID)
       IN  IF found = {}
           THEN rd' = [IdleRead EXCEPT !.pc = "done", !.objectID = objectID,
                                       !.resp = NotFoundOnLookup]
           ELSE \E l \in found :
                   rd' = [IdleRead EXCEPT !.pc = "fetched",
                                          !.objectID = objectID, !.lease = l]
    /\ qry' = NoQuery
    /\ UNCHANGED <<clock, ticks, storeVars, pieces, up, sched, probe, calls, mock>>

\* status := lifecycle.CalculateLeaseStatus(*lease), then either the 404 or
\* adapter.Download and the body. visible records what the tables say of the
\* object at the instant the status is derived.
ReadStatus ==
    /\ rd.pc = "fetched"
    /\ IF Served(CalculateLeaseStatus(rd.lease, clock))
       THEN rd' = [rd EXCEPT !.pc = "done",
                             !.resp = DownloadResponse(pieces, rd.lease),
                             !.visible = VisibleAt(leases, rd.objectID, clock)]
       ELSE rd' = [rd EXCEPT !.pc = "done", !.resp = NotFoundOnStatus,
                             !.visible = VisibleAt(leases, rd.objectID, clock)]
    /\ UNCHANGED <<clock, ticks, storeVars, pieces, up, sched, probe, calls,
                   qry, mock>>

\* ------------------------------------------------------ handleListObjects
\* One row of objects o JOIN leases l ON o.object_id = l.object_id, scanned and
\* given its status: the lease literal carries ObjectID, CreatedAt, ExpireAt
\* and DeletedAt only
ListEntry(o, l, now) ==
    LET createdAt == parseTime(l.created_at)
        expireAt  == parseTime(l.expire_at)
        deletedAt == IF l.deleted_at.Valid
                     THEN SomeTime(parseTime(l.deleted_at.String)) ELSE NilTime
        lease     == ObjectLease(0, o.object_id, "", createdAt, expireAt,
                                 deletedAt, StorageRef("", 0))
    IN  [object_id |-> o.object_id, size |-> o.size_bytes,
         created_at |-> createdAt, expire_at |-> expireAt,
         status |-> CalculateLeaseStatus(lease, now),
         sort_key |-> l.created_at]

\* The joined rows WHERE o.wallet = ?
ListRows(objs, tbl, wallet, now) ==
    {ListEntry(p[1], p[2], now) :
        p \in {q \in objs \X tbl :
                 q[1].object_id = q[2].object_id /\ q[1].wallet = wallet}}

\* The results handleListObjects may write for a wallet: the rows ORDER BY
\* l.created_at DESC (the TEXT order; rows with equal texts in either order)
handleListObjects(objs, tbl, wallet, now) ==
    LET rows == ListRows(objs, tbl, wallet, now)
        n    == Cardinality(rows)
    IN  {s \in [1 .. n -> rows] :
            /\ \A i, j \in 1 .. n : i # j => s[i] # s[j]
            /\ \A i, j \in 1 .. n :
                  i < j => ~ TextLess(s[i].sort_key, s[j].sort_key)}

\* --------------------------------------------------------- statistics
\* 7 * 24 * time.Hour
Week == 7 * Day

\* now.Truncate(24 * time.Hour): the start of the UTC day
StartOfDay(now) == now - (now % Day)

\* a BETWEEN lo AND hi on TEXT values: lo <= a AND a <= hi in byte order
TextBetween(a, lo, hi) == ~ TextLess(a, lo) /\ ~ TextLess(hi, a)

\* SELECT COUNT(*) FROM users WHERE created_at >= ?, bound to iso(today)
NewUsersToday(usrs, now) ==
    Cardinality({u \in usrs : ~ TextLess(u.created_at, iso(StartOfDay(now)))})

\* SELECT COALESCE(SUM(size_bytes),0) FROM objects
RECURSIVE SumSizes(_)
SumSizes(objs) ==
    IF objs = {} THEN 0
    ELSE LET o == CHOOSE x \in objs : TRUE
         IN  o.size_bytes + SumSizes(objs \ {o})

\* ... FROM objects WHERE created_at >= ?, bound to iso(today)
StorageToday(objs, now) ==
    SumSizes({o \in objs : ~ TextLess(o.created_at, iso(StartOfDay(now)))})

\* GetExtendedStats: SELECT COUNT(*) FROM leases WHERE expire_at BETWEEN ? AND
\* ?, bound to iso(now) and iso(in7days)
ExpiringIn7Days(tbl, now) ==
    Cardinality({x \in tbl :
        TextBetween(x.expire_at, iso(now), iso(now + Week))})

\* GetDashboardStats: the same count with AND deleted_at IS NULL
UndeletedExpiringIn7Days(tbl, now) ==
    Cardinality({x \in tbl :
        /\ TextBetween(x.expire_at, iso(now), iso(now + Week))
        /\ ~ x.deleted_at.Valid})

\* the lease the loop of GetExtendedStats scans from one row: lease_id,
\* object_id, wallet, created_at, expire_at and deleted_at
StatsLease(row) ==
    ObjectLease(row.lease_id, row.object_id, row.wallet,
                parseTime(row.created_at), parseTime(row.expire_at),
                IF row.deleted_at.Valid
                THEN SomeTime(parseTime(row.deleted_at.String)) ELSE NilTime,
                StorageRef("", 0))

\* a switch that has no case for LeaseExpired
CountRowNoExpiredCase(stats, status) ==
    IF status = LeaseActive
    THEN [stats EXCEPT !.ActiveObjects = @ + 1]
    ELSE IF status = LeaseDeleted
    THEN [stats EXCEPT !.DeletedObjects = @ + 1]
    ELSE stats

\* switch status { case LeaseActive: ... case LeaseExpired: ... case
\* LeaseDeleted: ... }
CountRow(stats, status) ==
    IF status = LeaseActive
    THEN [stats EXCEPT !.ActiveObjects = @ + 1]
    ELSE IF status = LeaseExpired
    THEN [stats EXCEPT !.ExpiredObjects = @ + 1]
    ELSE IF status = LeaseDeleted
    THEN [stats EXCEPT !.DeletedObjects = @ + 1]
    ELSE stats

\* for rows.Next() { ... status := CalculateLeaseStatus(lease); switch ... }
\* over the rows of SELECT ... FROM leases, all at the instant now
RECURSIVE CountRows(_, _, _)
CountRows(rows, now, stats) ==
    IF rows = {} THEN stats
    ELSE LET x == CHOOSE y \in rows : TRUE
         IN  CountRows(rows \ {x}, now,
                       CountRow(stats, CalculateLeaseStatus(StatsLease(x), now)))

\* GetExtendedStats
GetExtendedStats(usrs, objs, tbl, now) ==
    CountRows(tbl, now,
        [ZeroStats EXCEPT !.TotalUsers = Cardinality(usrs),
                          !.NewUsersToday = NewUsersToday(usrs, now),
                          !.TotalStorageBytes = SumSizes(objs),
                          !.StorageTodayBytes = StorageToday(objs, now),
                          !.ExpiringIn7Days = ExpiringIn7Days(tbl, now)])

\* GetDashboardStats
GetDashboardStats(usrs, objs, tbl, now) ==
    [ZeroStats EXCEPT !.TotalUsers = Cardinality(usrs),
                      !.NewUsersToday = NewUsersToday(usrs, now),
                      !.TotalStorageBytes = SumSizes(objs),
                      !.StorageTodayBytes = StorageToday(objs, now),
                      !.ExpiringIn7Days = UndeletedExpiringIn7Days(tbl, now)]

\* handleDashboard: stats, err := s.store.GetExtendedStats(); writeJSON(w, stats)
Dashboard ==
    /\ rd.pc \in {"idle", "done"}
    /\ rd' = IdleRead
    /\ qry' = [NoQuery EXCEPT !.kind = "extended", !.at = clock, !.code = 200,
                  !.stats = GetExtendedStats(users, objects, leases, clock)]
    /\ UNCHANGED <<clock, ticks, storeVars, pieces, up, sched, probe, calls, mock>>

\* GetDashboardStats called on the store
DashboardStats ==
    /\ rd.pc \in {"idle", "done"}
    /\ rd' = IdleRead
    /\ qry' = [NoQuery EXCEPT !.kind = "dashboard", !.at = clock, !.code = 200,
                  !.stats = GetDashboardStats(users, objects, leases, clock)]
    /\ UNCHANGED <<clock, ticks, storeVars, pieces, up, sched, probe, calls, mock>>

\* handleListObjects for the X-Wallet header value given
List(wallet) ==
    /\ rd.pc \in {"idle", "done"}
    /\ rd' = IdleRead
    /\ IF wallet = ""
       THEN qry' = [NoQuery EXCEPT !.kind = "list", !.at = clock, !.code = 400]
       ELSE \E listing \in handleListObjects(objects, leases, wallet, clock) :
               qry' = [NoQuery EXCEPT !.kind = "list", !.at = clock,
                                      !.code = 200, !.list = listing]
    /\ UNCHANGED <<clock, ticks, storeVars, pieces, up, sched, probe, calls, mock>>

\* --------------------------------------------- StartExpirationScheduler
\* a range loop that stops after its first lease
RestOfRangeBreak(batch, l) == {}

\* the leases the range loop has still to visit after l
RestOfRange(batch, l) == batch \ {l}

\* the lease rows that are due: expiry reached and deleted_at NULL
Due(tbl, now) ==
    {x.lease_id : x \in {y \in tbl :
        ~ y.deleted_at.Valid /\ parseTime(y.expire_at) <= now}}

\* the scheduler asleep in time.Sleep
Asleep == [pc |-> "sleep", batch |-> {}, due |-> {}, err |-> FALSE]

\* a sweep started by a timer that does not wait for the range loop
CycleMayBeginOnTimer(s) == s.pc \in {"sleep", "mark"}

\* the one goroutine's for loop: time.Sleep and GetExpiredLeases are reached
\* only when the range loop of the previous pass has ended
CycleMayBegin(s) == s.pc = "sleep"

\* time.Sleep returns and store.GetExpiredLeases() succeeds; an empty result
\* ends the cycle at once
SchedulerQuery ==
    /\ CycleMayBegin(sched)
    /\ LET got == GetExpiredLeases(leases, clock)
       IN  sched' = IF got = {} THEN Asleep
                    ELSE [pc |-> "mark", batch |-> got,
                          due |-> Due(leases, clock), err |-> FALSE]
    /\ UNCHANGED <<clock, ticks, storeVars, pieces, up, rd, probe, calls, qry, mock>>

\* an error path that ends the goroutine: return instead of continue
AfterQueryErrorReturn == [pc |-> "off", batch |-> {}, due |-> {}, err |-> TRUE]

\* if err != nil { continue }: the goroutine is back at time.Sleep, err set
AfterQueryError == [Asleep EXCEPT !.err = TRUE]

\* time.Sleep returns and store.GetExpiredLeases() returns an error: continue
SchedulerQueryFails ==
    /\ CycleMayBegin(sched)
    /\ sched' = AfterQueryError
    /\ UNCHANGED <<clock, ticks, storeVars, pieces, up, rd, probe, calls, qry, mock>>

\* one pass of the range loop: store.MarkDeleted(lease.LeaseID); after the
\* last pass the goroutine sleeps again
SchedulerMark ==
    /\ sched.pc = "mark"
    /\ \E l \in sched.batch :
          /\ leases' = MarkDeleted(leases, l.LeaseID, clock)
          /\ LET rest == RestOfRange(sched.batch, l)
             IN  sched' = IF rest = {} THEN Asleep
                          ELSE [sched EXCEPT !.batch = rest]
    /\ UNCHANGED <<clock, ticks, users, datasets, objects, pieces, up, rd, probe, calls,
                   qry, mock>>

\* ------------------------------------------------------------ the clock
Tick ==
    /\ ticks < MaxTicks
    /\ \E d \in Jumps : clock' = clock + d
    /\ ticks' = ticks + 1
    /\ UNCHANGED <<storeVars, pieces, up, rd, sched, probe, calls, qry, mock>>

\* ------------------------------------------------------- the process
NoProbe == [lease |-> NoLease, at |-> 0, status |-> "", done |-> FALSE]

\* the lease identifiers of the model, and 0, which no lease has
LeaseIDs == {NewLeaseID(r) : r \in Uploads}
NoCalls == [id \in {0} \cup LeaseIDs |-> [n |-> 0, at |-> 0]]

\* main (the one that calls lifecycle.StartExpirationScheduler): the store
\* is opened, the scheduler goroutine started and the server listening
Init ==
    /\ clock = StartClock
    /\ ticks = 0
    /\ users = {}
    /\ datasets = {}
    /\ objects = {}
    /\ leases = {}
    /\ pieces = <<>>
    /\ up = [r \in Uploads |-> IdleUpload]
    /\ rd = IdleRead
    /\ sched = Asleep
    /\ probe = NoProbe
    /\ calls = NoCalls
    /\ qry = NoQuery
    /\ mock = NoMock

\* the identifiers read requests name: every object's, and 0, which uuid.New()
\* never returns
ReadTargets == {0} \cup {o.object_id : o \in objects}

Upload ==
    \E r \in Uploads :
        \/ \E w \in Wallets, d \in Payloads, tooLarge \in BOOLEAN :
              UploadStart(r, w, d, tooLarge)
        \/ UploadInsertRecords(r)
        \/ UploadInsertLease(r)

Read ==
    \/ \E o \in ReadTargets : ReadFetch(o)
    \/ ReadStatus

Scheduler == SchedulerQuery \/ SchedulerQueryFails \/ SchedulerMark

Next == Upload \/ Read \/ Scheduler \/ Tick

Spec == Init /\ [][Next]_vars

\* ------------------------------------- CalculateLeaseStatus on its own
\* the instant the probed leases expire at
ProbeBase == StartClock + LeaseDuration
ProbeInstants == (ProbeBase - 1) .. (ProbeBase + MaxProbe)

\* the leases probed: expiry zero, before, at and after the instants probed;
\* deleted_at unset, or set early or late
ProbeLeases ==
    {ObjectLease(1, 1, "w1", StartClock, e, d, StorageRef(EnsureDataSet, 1)) :
        e \in {0} \cup ProbeInstants,
        d \in {NilTime, SomeTime(ProbeBase - 1), SomeTime(ProbeBase + MaxProbe)}}

StatusInit ==
    /\ clock = ProbeBase - 1
    /\ ticks = 0
    /\ users = {}
    /\ datasets = {}
    /\ objects = {}
    /\ leases = {}
    /\ pieces = <<>>
    /\ up = [r \in Uploads |-> IdleUpload]
    /\ rd = IdleRead
    /\ sched = Asleep
    /\ probe \in {[NoProbe EXCEPT !.lease = l] : l \in ProbeLeases}
    /\ calls = NoCalls
    /\ qry = NoQuery
    /\ mock = NoMock

\* status := CalculateLeaseStatus(lease), called at the current instant
ProbeStatus ==
    /\ probe' = [probe EXCEPT !.status = CalculateLeaseStatus(probe.lease, clock),
                              !.at = clock, !.done = TRUE]
    /\ UNCHANGED <<clock, ticks, storeVars, pieces, up, rd, sched, calls, qry, mock>>

ProbeTick ==
    /\ clock < ProbeBase + MaxProbe
    /\ clock' = clock + 1
    /\ UNCHANGED <<ticks, storeVars, pieces, up, rd, sched, probe, calls, qry, mock>>

StatusNext == ProbeStatus \/ ProbeTick

StatusSpec == StatusInit /\ [][StatusNext]_vars

\* ------------------------------------------- the store's methods on their own
\* InsertLease called with a lease that expires at once or after 30 days
StoreInsertLease(id, expired) ==
    /\ leases' = InsertLease(leases,
                    ObjectLease(id, id, "w1", clock,
                                IF expired THEN clock ELSE LeaseExpiry(clock),
                                NilTime, StorageRef(EnsureDataSet, id)))
    /\ UNCHANGED <<clock, ticks, users, datasets, objects, pieces, up, rd, sched,
                   probe, calls, qry, mock>>

\* MarkDeleted called with any lease identifier, at most MaxCalls times each
StoreMarkDeleted(id) ==
    /\ calls[id].n < MaxCalls
    /\ leases' = MarkDeleted(leases, id, clock)
    /\ calls' = [calls EXCEPT ![id] = [n |-> @.n + 1, at |-> clock]]
    /\ UNCHANGED <<clock, ticks, users, datasets, objects, pieces, up, rd, sched,
                   probe, qry, mock>>

StoreNext ==
    \/ \E id \in LeaseIDs, expired \in BOOLEAN : StoreInsertLease(id, expired)
    \/ \E id \in DOMAIN calls : StoreMarkDeleted(id)
    \/ Tick

StoreSpec == Init /\ [][StoreNext]_vars

\* ------------------------- the lifecycle package without the HTTP server
\* the expiries a caller of InsertLease gives a lease: never set, reached at
\* once, and 3, 7 and 8 days ahead
ExpiryChoices(now) == {0, now, now + 3 * Day, now + Week, now + 8 * Day}

\* InsertLease called with a lease of the expiry given
LibInsertLease(id, expireAt) ==
    /\ leases' = InsertLease(leases,
                    ObjectLease(id, id, "w1", clock, expireAt, NilTime,
                                StorageRef(EnsureDataSet, id)))
    /\ UNCHANGED <<clock, ticks, users, datasets, objects, pieces, up, rd, sched,
                   probe, calls, qry, mock>>

\* leases inserted directly, the scheduler, the two statistics functions and
\* the clock
LibNext ==
    \/ \E id \in LeaseIDs, e \in ExpiryChoices(clock) : LibInsertLease(id, e)
    \/ Scheduler
    \/ Dashboard
    \/ DashboardStats
    \/ Tick

LibSpec == Init /\ [][LibNext]_vars

\* ------------------------------ uploads against an adapter that may fail
\* handleUpload of internal/api with an adapter whose calls may fail
FaultyUpload ==
    \/ Upload
    \/ \E r \in Uploads, w \in Wallets, d \in Payloads, call \in AdapterCalls :
          UploadAdapterFails(r, w, d, call)

FaultNext == FaultyUpload \/ Read \/ Tick

FaultSpec == Init /\ [][FaultNext]_vars

\* handleUpload of the older server with an adapter whose calls may fail
OlderUpload ==
    \E r \in Uploads :
        \/ \E w \in Wallets, d \in Payloads, readFails, ensureFails \in BOOLEAN :
              OlderUploadStart(r, w, d, readFails, ensureFails)
        \/ OlderUploadInsertUser(r)
        \/ \E uploadFails \in BOOLEAN : OlderUploadAdapter(r, uploadFails)
        \/ OlderUploadInsertObject(r)
        \/ OlderUploadInsertLease(r)

OlderNext == OlderUpload \/ Tick

OlderSpec == Init /\ [][OlderNext]_vars

\* ------------------------------------- the scheduler over a bare store
\* leases inserted directly, the scheduler goroutine and the clock; the
\* goroutine is scheduled and GetExpiredLeases does not fail forever
SweepNext ==
    \/ \E id \in LeaseIDs, e \in ExpiryChoices(clock) : LibInsertLease(id, e)
    \/ Scheduler
    \/ Tick

SweepSpec ==
    Init /\ [][SweepNext]_vars
         /\ WF_vars(SchedulerQuery) /\ WF_vars(SchedulerMark)

\* ---------------------------------------- the MockAdapter on its own
\* Upload, Download and Delete called in any order; each call holds m.mu from
\* entry to return, so concurrent calls take effect one after another
MockNext ==
    \/ \E d \in Payloads : MockUpload(d)
    \/ \E cid \in PieceIDs : MockDownload(cid)
    \/ \E cid \in PieceIDs : MockDelete(cid)

MockSpec == Init /\ [][MockNext]_vars

\* ------------------------------- the server with all of its handlers
OpsNext ==
    \/ Next
    \/ \E w \in Wallets : List(w)
    \/ Dashboard

OpsSpec == Init /\ [][OpsNext]_vars

\* ------------------------------------ the process of cmd/szem/main.go
\* main of cmd/szem: the store is opened and the server listening;
\* StartExpirationScheduler is not called, so no scheduler goroutine runs
SzemInit ==
    /\ clock = StartClock
    /\ ticks = 0
    /\ users = {}
    /\ datasets = {}
    /\ objects = {}
    /\ leases = {}
    /\ pieces = <<>>
    /\ up = [r \in Uploads |-> IdleUpload]
    /\ rd = IdleRead
    /\ sched = [pc |-> "off", batch |-> {}, due |-> {}, err |-> FALSE]
    /\ probe = NoProbe
    /\ calls = NoCalls
    /\ qry = NoQuery
    /\ mock = NoMock

SzemNext == Upload \/ Read \/ Tick

\* the handlers run when requests are pending and the clock advances
SzemSpec ==
    SzemInit /\ [][SzemNext]_vars
        /\ WF_vars(Upload) /\ WF_vars(Read) /\ WF_vars(Tick)

\* the process that starts the scheduler, with the goroutine scheduled fairly
\* and GetExpiredLeases not failing forever
FairSpec ==
    Spec /\ WF_vars(Upload) /\ WF_vars(Read) /\ WF_vars(Tick)
         /\ WF_vars(SchedulerQuery) /\ WF_vars(SchedulerMark)

\* ================================================================ claims

\* C1: a completed read returned the object's bytes exactly when, at the
\* instant the handler derived the status, the most recent lease row of the
\* object was Active (not deleted, expiry not reached); the bytes returned are
\* the ones uploaded for that object. A lease past its expiry is refused
\* although the scheduler has not yet marked it.
C1_ReadIffActive ==
    rd.pc = "done" =>
        /\ rd.resp.code = 200 <=> rd.visible
        /\ rd.resp.code = 200 =>
              \E r \in Uploads : /\ up[r].objectID = rd.objectID
                                 /\ rd.resp.body = up[r].data
        /\ rd.resp.code # 200 => rd.resp.body = <<>>

\* C1 witness: a read of an object whose lease is past its expiry and not yet
\* marked deleted, with the object row still there, was refused
C1_Witness ==
    /\ rd.pc = "done"
    /\ rd.resp.code = 404
    /\ rd.lease.LeaseID # 0
    /\ \E x \in leases : /\ x.lease_id = rd.lease.LeaseID
                         /\ ~ x.deleted_at.Valid
                         /\ parseTime(x.expire_at) <= clock
    /\ \E o \in objects : o.object_id = rd.objectID

\* C2: for a lease with deleted_at set, CalculateLeaseStatus returns Deleted
\* whatever expire_at and the current time are
C2_DeletionDominates ==
    (probe.done /\ probe.lease.DeletedAt.set) => probe.status = LeaseDeleted

\* C2 witness: the status of a lease with deleted_at set and its expiry in the
\* past was derived
C2_Witness ==
    /\ probe.done
    /\ probe.lease.DeletedAt.set
    /\ probe.lease.ExpireAt # 0
    /\ probe.lease.ExpireAt < probe.at

\* C3: for a lease with deleted_at unset and a non-zero expire_at,
\* CalculateLeaseStatus returns Expired exactly when now >= expire_at and
\* Active exactly when now < expire_at
C3_InclusiveBoundary ==
    (probe.done /\ ~ probe.lease.DeletedAt.set /\ probe.lease.ExpireAt # 0) =>
        /\ probe.status = LeaseExpired <=> probe.at >= probe.lease.ExpireAt
        /\ probe.status = LeaseActive <=> probe.at < probe.lease.ExpireAt

\* C3 witness: the status was derived at the very instant of expiry
C3_Witness ==
    /\ probe.done
    /\ ~ probe.lease.DeletedAt.set
    /\ probe.lease.ExpireAt # 0
    /\ probe.at = probe.lease.ExpireAt

\* the lease row with this identifier has deleted_at set
IsDeleted(tbl, id) == \E x \in tbl : x.lease_id = id /\ x.deleted_at.Valid

\* C4: when a sweep cycle completes (GetExpiredLeases succeeded and the range
\* loop has made its last MarkDeleted call), every lease row that was due when
\* the cycle queried (expiry reached, deleted_at unset) has deleted_at set and
\* is not among the leases GetExpiredLeases returns
C4_SweepConverges ==
    [][(sched.pc = "mark" /\ sched'.pc = "sleep") =>
          \A id \in sched.due :
              /\ IsDeleted(leases', id)
              /\ id \notin {l.LeaseID : l \in GetExpiredLeases(leases', clock')}]_vars

\* C4 witness: the scheduler is asleep again after a cycle and two leases
\* have been marked deleted
C4_Witness ==
    /\ sched.pc = "sleep"
    /\ Cardinality({x \in leases : x.deleted_at.Valid}) >= 2

\* C5: a MarkDeleted call on a lease identifier whose deleted_at is already
\* set changes nothing in the leases table: deleted_at keeps the value the
\* first call wrote and no other field of any lease changes (the UPDATE
\* matches no row, which is not an error)
C5_MarkDeletedIdempotent ==
    [][\A id \in DOMAIN calls :
          (calls'[id].n > calls[id].n /\ IsDeleted(leases, id)) =>
              leases' = leases]_vars

\* C5 witness: MarkDeleted was called a second time on a lease, at an instant
\* later than the deleted_at it carries
C5_Witness ==
    \E x \in leases :
        /\ x.deleted_at.Valid
        /\ calls[x.lease_id].n >= 2
        /\ calls[x.lease_id].at > parseTime(x.deleted_at.String)

\* C6: in every step, every lease row stays in the table with the expire_at
\* it has, and a deleted_at that is set stays set to the same value
C6_LeaseFieldsStable ==
    [][\A x \in leases :
          \E y \in leases' :
              /\ y.lease_id = x.lease_id
              /\ y.expire_at = x.expire_at
              /\ x.deleted_at.Valid => y.deleted_at = x.deleted_at]_vars

\* C6 witness: a lease marked deleted at an earlier instant is still in the
\* table next to a lease of a later upload of the same wallet
C6_Witness ==
    \E x, y \in leases :
        /\ x.deleted_at.Valid
        /\ parseTime(x.deleted_at.String) < clock
        /\ y.wallet = x.wallet
        /\ parseTime(y.created_at) > parseTime(x.deleted_at.String)

\* the lease row with this identifier is due: expiry reached, deleted_at unset
IsDue(tbl, id, now) ==
    \E x \in tbl : /\ x.lease_id = id
                   /\ ~ x.deleted_at.Valid
                   /\ parseTime(x.expire_at) <= now

\* C7: every lease whose expiry has been reached and whose deleted_at is unset
\* is eventually marked deleted
C7_EventuallyDeleted ==
    \A id \in LeaseIDs : IsDue(leases, id, clock) ~> IsDeleted(leases, id)

\* the object has no readable lease: it never existed, or its most recent
\* lease is past its expiry or marked deleted
Hidden(objectID) == ~ VisibleAt(leases, objectID, clock)

\* the one response a read caller gets for a hidden object
NotFound == writeError(404, "not_found", "object not found")

\* C8: a read of an object that never existed, of one whose lease has expired
\* and of one whose lease is deleted produce the identical response (status
\* code, error code, message): every completed read of a hidden object wrote
\* it, and in every state the handler answers any two hidden identifiers alike
C8_NoLeakOnRead ==
    /\ (rd.pc = "done" /\ ~ rd.visible) => rd.resp = NotFound
    /\ \A o1, o2 \in ReadTargets :
          (Hidden(o1) /\ Hidden(o2)) =>
              /\ handleGetObject(leases, pieces, o1, clock) = {NotFound}
              /\ handleGetObject(leases, pieces, o1, clock)
                     = handleGetObject(leases, pieces, o2, clock)

\* C8 witness: one object's lease is marked deleted, another's is past its
\* expiry and unmarked, identifier 0 never existed, and a read of the deleted
\* one has completed
C8_Witness ==
    /\ \E x, y \in leases :
          /\ x.deleted_at.Valid
          /\ ~ y.deleted_at.Valid /\ parseTime(y.expire_at) <= clock
          /\ rd.objectID = x.object_id
    /\ rd.pc = "done"
    /\ ~ rd.visible
    /\ rd.lease.DeletedAt.set

\* the upload request has returned its success response
Succeeded(r) == up[r].pc = "done" /\ up[r].resp.code = 200

\* the list for the wallet, however ties are ordered, has an entry for the
\* object with this status
Listed(wallet, objectID, statuses) ==
    \A listing \in handleListObjects(objects, leases, wallet, clock) :
        \E i \in DOMAIN listing : /\ listing[i].object_id = objectID
                                  /\ listing[i].status \in statuses

\* C9: once an upload has returned success, the one lease row of the returned
\* object has expire_at = created_at + 30 days = the expiry in the response,
\* the response's size and piece are those of the uploaded bytes, and as long
\* as that expiry has not been reached (an immediate read or list) a read of
\* the object returns exactly the uploaded bytes and the owner's list has an
\* entry for the object with status Active
C9_ReadAfterWrite ==
    \A r \in Uploads :
        Succeeded(r) =>
            LET resp == up[r].resp
                rows == {x \in leases : x.object_id = resp.object_id}
            IN  /\ Cardinality(rows) = 1
                /\ \A x \in rows :
                      /\ parseTime(x.expire_at) = parseTime(x.created_at) + LeaseDuration
                      /\ parseTime(x.expire_at) = resp.expire_at
                /\ resp.size = Len(up[r].data)
                /\ AdapterDownload(pieces, resp.piece_cid)
                       = [ok |-> TRUE, bytes |-> up[r].data]
                /\ clock < resp.expire_at =>
                      /\ handleGetObject(leases, pieces, resp.object_id, clock)
                             = {writeBody(up[r].data)}
                      /\ Listed(up[r].wallet, resp.object_id, {LeaseActive})

\* C9 witness: an upload made at an instant with a sub-second part has
\* returned success and its lease has not expired
C9_Witness ==
    \E r \in Uploads :
        /\ Succeeded(r)
        /\ up[r].now % Second # 0
        /\ clock < up[r].resp.expire_at

\* C10: an upload that passed the header and body checks succeeds; and when
\* two uploads of one owner have succeeded, however their steps interleaved,
\* their object identifiers differ, both object rows and both lease rows are
\* in the tables, the owner's list shows both, and a read of each (before its
\* expiry) returns that upload's own bytes
C10_NoLostWrites ==
    /\ \A r \in Uploads :
          (up[r].pc = "done" /\ up[r].resp.code \notin {400, 413}) => Succeeded(r)
    /\ \A r1, r2 \in Uploads :
          (r1 # r2 /\ Succeeded(r1) /\ Succeeded(r2)
                   /\ up[r1].wallet = up[r2].wallet) =>
              /\ up[r1].resp.object_id # up[r2].resp.object_id
              /\ \A r \in {r1, r2} :
                    LET oid == up[r].resp.object_id
                    IN  /\ \E o \in objects : o.object_id = oid
                        /\ \E x \in leases : x.object_id = oid
                        /\ Listed(up[r].wallet, oid,
                                  {LeaseActive, LeaseExpired, LeaseDeleted})
                        /\ clock < up[r].resp.expire_at =>
                              handleGetObject(leases, pieces, oid, clock)
                                  = {writeBody(up[r].data)}

\* C10 witness: two uploads of one owner with different bytes have both
\* succeeded, the one that reached the adapter first having stored its lease
\* after the other, and neither lease has expired
C10_Witness ==
    \E r1, r2 \in Uploads :
        /\ Succeeded(r1) /\ Succeeded(r2)
        /\ up[r1].wallet = up[r2].wallet
        /\ up[r1].data # up[r2].data
        /\ up[r1].pieceCID < up[r2].pieceCID
        /\ up[r2].now < up[r1].now
        /\ clock < up[r2].resp.expire_at

\* C11: at most one sweep cycle is in flight. A step that leaves the scheduler
\* in its range loop either begins a cycle from sleep or is a pass of the
\* cycle already in flight (same selection, one lease fewer to visit); and a
\* lease row gets its deleted_at only while a cycle that selected it is in
\* flight, so no lease is processed by two overlapping cycles
C11_SingleFlight ==
    [][/\ sched'.pc = "mark" =>
             \/ sched.pc = "sleep"
             \/ sched' = sched
             \/ /\ sched.pc = "mark"
                /\ sched'.due = sched.due
                /\ sched'.batch \subseteq sched.batch
                /\ sched'.batch # sched.batch
       /\ \A x \in leases :
             (~ x.deleted_at.Valid /\ IsDeleted(leases', x.lease_id)) =>
                 (sched.pc = "mark" /\ x.lease_id \in sched.due)]_vars

\* C11 witness: while a cycle is in flight another lease has become due that
\* the cycle did not select
C11_Witness ==
    /\ sched.pc = "mark"
    /\ \E id \in Due(leases, clock) : id \notin sched.due

\* C12: a lease with a zero expire_at and no deleted_at is Active at every
\* instant, also after it was written to and read back from the leases table;
\* it is never Expired, and with deleted_at set it is Deleted
C12_ZeroExpiryNeverExpires ==
    (probe.done /\ probe.lease.ExpireAt = 0) =>
        /\ probe.status # LeaseExpired
        /\ ~ probe.lease.DeletedAt.set => probe.status = LeaseActive
        /\ probe.lease.DeletedAt.set => probe.status = LeaseDeleted
        /\ \A x \in InsertLease({}, probe.lease) :
              /\ ScanLease(x).ExpireAt = 0
              /\ CalculateLeaseStatus(ScanLease(x), probe.at) = LeaseActive

\* C12 witness: the status of a lease with a zero expire_at and no deleted_at
\* was derived at the latest instant probed
C12_Witness ==
    /\ probe.done
    /\ probe.lease.ExpireAt = 0
    /\ ~ probe.lease.DeletedAt.set
    /\ probe.at = ProbeBase + MaxProbe
    /\ probe.status = LeaseActive

\* the lease rows whose status by the derivation rule is the one given
RowsWithStatus(tbl, now, status) ==
    {x \in tbl : CalculateLeaseStatus(ScanLease(x), now) = status}

\* C13: the three status counts GetExtendedStats returns are, for the leases
\* table and the instant of the call, the numbers of lease rows whose status
\* by CalculateLeaseStatus is Active, Expired and Deleted, and they sum to the
\* number of lease rows
C13_StatusCountsAgree ==
    [][(qry'.kind = "extended" /\ qry' # qry) =>
          LET s == qry'.stats
          IN  /\ s.ActiveObjects
                    = Cardinality(RowsWithStatus(leases, clock, LeaseActive))
              /\ s.ExpiredObjects
                    = Cardinality(RowsWithStatus(leases, clock, LeaseExpired))
              /\ s.DeletedObjects
                    = Cardinality(RowsWithStatus(leases, clock, LeaseDeleted))
              /\ s.ActiveObjects + s.ExpiredObjects + s.DeletedObjects
                    = Cardinality(leases)]_vars

\* C13 witness: statistics were returned that count one lease as Expired and
\* one, swept earlier, as Deleted
C13_Witness ==
    /\ qry.kind = "extended"
    /\ qry.stats.ExpiredObjects = 1
    /\ qry.stats.DeletedObjects = 1
    /\ \E x \in leases : x.deleted_at.Valid /\ parseTime(x.deleted_at.String) < qry.at

\* the lease rows whose expiry lies strictly inside the next 7 days and that
\* are not marked deleted
ExpiringSoon(tbl, now) ==
    {x \in tbl : /\ now < parseTime(x.expire_at)
                 /\ parseTime(x.expire_at) < now + Week
                 /\ ~ x.deleted_at.Valid}

\* the lease rows whose expiry lies in the next 7 days, the two ends included
ExpiringWithin(tbl, now) ==
    {x \in tbl : /\ now <= parseTime(x.expire_at)
                 /\ parseTime(x.expire_at) <= now + Week}

\* C14: the ExpiringIn7Days count of GetExtendedStats and of GetDashboardStats
\* is the number of leases whose expiry falls within the next 7 days: it
\* counts every undeleted lease expiring strictly inside the window and no
\* lease expiring before now or more than 7 days ahead
C14_ExpiringIn7Days ==
    [][(qry'.kind \in {"extended", "dashboard"} /\ qry' # qry) =>
          /\ Cardinality(ExpiringSoon(leases, clock)) <= qry'.stats.ExpiringIn7Days
          /\ qry'.stats.ExpiringIn7Days <= Cardinality(ExpiringWithin(leases, clock))]_vars

\* the upload request ended with the error of a failed adapter call
AdapterFailed(r) ==
    /\ up[r].pc = "done"
    /\ up[r].resp.error \in {"dataset_error", "upload_error",
                              "dataset error", "upload error"}

\* the upload request has created no record: it has not started, or it ended
\* with an error
NothingStored(r) == up[r].pc = "idle" \/ (up[r].pc = "done" /\ up[r].resp.code # 200)

\* C15: an upload whose adapter call (EnsureDataSet or Upload) failed returned
\* an error and created no record: there is no object or lease row of that
\* request, and when no other request has stored anything either, the users
\* and datasets tables are as empty as before the request
C15_NoMetadataOnAdapterFailure ==
    \A r \in Uploads :
        AdapterFailed(r) =>
            /\ up[r].resp.code = 500
            /\ ~ \E o \in objects : o.object_id = NewObjectID(r)
            /\ ~ \E x \in leases : x.lease_id = NewLeaseID(r)
            /\ (\A q \in Uploads : NothingStored(q)) =>
                  /\ users = {}
                  /\ datasets = {}
                  /\ objects = {}
                  /\ leases = {}

\* C16: a cycle whose GetExpiredLeases call fails marks no lease and leaves
\* the scheduler running, asleep until the next interval; a later cycle is
\* performed, and every lease that was due when a cycle failed is marked
\* deleted by a later cycle
C16_SweepRetries ==
    /\ [][sched'.err =>
             /\ sched'.pc = "sleep"
             /\ sched'.batch = {}
             /\ \A x \in leases :
                   x.deleted_at.Valid <=> IsDeleted(leases', x.lease_id)]_vars
    /\ sched.err ~> ~ sched.err
    /\ \A id \in LeaseIDs :
          (sched.err /\ IsDue(leases, id, clock)) ~> IsDeleted(leases, id)

\* C16 witness: the last query failed while two leases are due and unmarked
C16_Witness ==
    /\ sched.err
    /\ \A id \in LeaseIDs : IsDue(leases, id, clock)

\* leases that agree with l on expire_at and on whether deleted_at is set and
\* differ from it in every other field
Twins(l) ==
    {[l EXCEPT !.LeaseID = 2, !.ObjectID = 3, !.Bucket = "qave", !.Key = "k",
               !.Wallet = "w2", !.CreatedAt = c, !.TombstonedAt = t,
               !.DeletedAt = d, !.StorageRef = StorageRef("ds-2", 2)] :
        c \in {0, ProbeBase + MaxProbe},
        t \in {NilTime, SomeTime(ProbeBase)},
        d \in IF l.DeletedAt.set
              THEN {SomeTime(1), SomeTime(ProbeBase + MaxProbe + 1)}
              ELSE {NilTime}}

\* C17: the status derived for a lease at an instant is the status derived at
\* that instant for every lease with the same expire_at and the same
\* presence of deleted_at, whatever the lease id, object id, bucket, key,
\* wallet, created_at, tombstone time, storage reference and deleted_at value
\* are; and deriving it again for the same lease and instant gives it again
C17_StatusDependsOnlyOnTimestamps ==
    probe.done =>
        /\ CalculateLeaseStatus(probe.lease, probe.at) = probe.status
        /\ \A t \in Twins(probe.lease) :
              CalculateLeaseStatus(t, probe.at) = probe.status

\* C17 witness: the status Expired was derived for a lease, and a lease with
\* the same expire_at that is tombstoned, created later and owned by another
\* wallet exists to compare
C17_Witness ==
    /\ probe.done
    /\ probe.status = LeaseExpired
    /\ \E t \in Twins(probe.lease) :
          /\ t.TombstonedAt.set
          /\ t.CreatedAt > probe.at
          /\ t.Wallet # probe.lease.Wallet

\* C18: in every step (of an upload, a read, a list, a dashboard call, the
\* scheduler or the clock) every user, dataset and object row stays in its
\* table as it is and every lease row stays under its identifier and object;
\* an object's row is there for every lease row, marked deleted or not
C18_NoHardDeletion ==
    [][/\ users \subseteq users'
       /\ datasets \subseteq datasets'
       /\ objects \subseteq objects'
       /\ \A x \in leases :
             \E y \in leases' : /\ y.lease_id = x.lease_id
                                /\ y.object_id = x.object_id
       /\ \A y \in leases' : \E o \in objects' : o.object_id = y.object_id]_vars

\* C18 witness: a list returned after the sweep shows an object whose lease is
\* marked deleted, and the object's row is in the table
C18_Witness ==
    /\ qry.kind = "list"
    /\ \E i \in DOMAIN qry.list :
          /\ qry.list[i].status = LeaseDeleted
          /\ \E o \in objects : o.object_id = qry.list[i].object_id

\* C19: every lease a sweep cycle selects has status Expired by
\* CalculateLeaseStatus at the instant of the query, and no lease whose status
\* is Active (one with a zero expire_at included) gets its deleted_at set
C19_SweeperAgreesWithRule ==
    [][/\ (sched.pc = "sleep" /\ sched'.pc = "mark") =>
             \A l \in sched'.batch : CalculateLeaseStatus(l, clock) = LeaseExpired
       /\ \A x \in leases :
             (~ x.deleted_at.Valid /\ IsDeleted(leases', x.lease_id)) =>
                 CalculateLeaseStatus(ScanLease(x), clock) # LeaseActive]_vars

\* C20: the clock never goes back, and from one state to the next a lease whose
\* status is Expired stays Expired or becomes Deleted and a lease whose status
\* is Deleted stays Deleted: no lease is Active after it was Expired or Deleted
C20_NoResurrection ==
    [][/\ clock <= clock'
       /\ \A x \in leases :
             /\ \E y \in leases' : y.lease_id = x.lease_id
             /\ \A y \in leases' :
                   y.lease_id = x.lease_id =>
                       LET before == CalculateLeaseStatus(ScanLease(x), clock)
                           after  == CalculateLeaseStatus(ScanLease(y), clock')
                       IN  /\ before = LeaseExpired =>
                                 after \in {LeaseExpired, LeaseDeleted}
                           /\ before = LeaseDeleted => after = LeaseDeleted]_vars

\* C20 witness: a lease was Active when created, Expired from its expiry on
\* and marked deleted at a later instant, while a lease of a later upload is
\* in the table
C20_Witness ==
    \E x, y \in leases :
        /\ x.deleted_at.Valid
        /\ parseTime(x.created_at) < parseTime(x.expire_at)
        /\ parseTime(x.expire_at) < parseTime(x.deleted_at.String)
        /\ parseTime(y.created_at) > parseTime(x.created_at)

\* the pieces the caller uploaded and has not deleted
Held == {mock.log[i] : i \in {j \in DOMAIN mock.log : mock.log[j].live}}

\* every piece the caller holds is in the adapter's map with the bytes that
\* were uploaded under its identifier
PiecesIntact ==
    \A e \in Held :
        AdapterDownload(pieces, e.cid) = [ok |-> TRUE, bytes |-> e.bytes]

\* a Download of a held identifier returned the bytes uploaded under it
DownloadsAgree ==
    mock.last.op = "Download" =>
        \A e \in Held :
            e.cid = mock.last.cid => mock.last.ok /\ mock.last.bytes = e.bytes

\* an Upload step returns an identifier that was not a key of the map
UploadReturnsFreshID ==
    [][Len(mock'.log) > Len(mock.log) => mock'.last.cid \notin DOMAIN pieces]_vars

\* C21: under any sequence of Upload, Download and Delete calls on the
\* MockAdapter, each Upload returns a piece identifier that is not a key of
\* the map at that moment, no stored piece has its bytes overwritten, and a
\* Download of an identifier uploaded earlier and not deleted returns the bytes
\* uploaded under it
C21_NoLivePieceReuse ==
    /\ [](PiecesIntact /\ DownloadsAgree)
    /\ UploadReturnsFreshID

\* the uploads the server's handlers made got piece identifiers that differ
\* from one another (no handler calls Delete)
HandlerPiecesDistinct ==
    \A r, q \in Uploads :
        (r # q /\ up[r].pieceCID # 0 /\ up[q].pieceCID # 0) =>
            up[r].pieceCID # up[q].pieceCID

====
